---- MODULE Spec2Model ----
(***************************************************************************)
(* State-machine model of the <zb-search-autocomplete> web component       *)
(* (class ZbSearchAutocomplete, src/unnamed/part_000).                     *)
(*                                                                         *)
(* A JavaScript string is a sequence of one-character strings, so that     *)
(* String.prototype.trim and emptiness tests are computed, not assumed.    *)
(* The browser's timer queue and the requests issued by fetch() are part   *)
(* of the state; every event handler runs to completion as one action.     *)
(***************************************************************************)
EXTENDS Integers, Sequences, FiniteSets, TLC

\* ------------------------------------------------------------------ bounds
\* window.setTimeout hands out ids 1, 2, 3, ...; the model arms at most
\* MaxTimerId timers in one behaviour.
MaxTimerId == 3

\* ----------------------------------------------------------------- strings
EmptyStr == <<>>

WhiteSpace == {" "}

RECURSIVE TrimStart(_)
TrimStart(s) ==
  IF s # EmptyStr /\ Head(s) \in WhiteSpace THEN TrimStart(Tail(s)) ELSE s

RECURSIVE TrimEnd(_)
TrimEnd(s) ==
  IF s # EmptyStr /\ s[Len(s)] \in WhiteSpace
    THEN TrimEnd(SubSeq(s, 1, Len(s) - 1))
    ELSE s

\* A trim that strips nothing (the emptiness test applied to the raw value).
TrimNothing(s) == s

\* String.prototype.trim
Trim(s) == TrimEnd(TrimStart(s))

\* JavaScript truthiness of a string: non-empty.
Truthy(s) == s # EmptyStr

\* Raw values the user can leave in the <input> element.
Inputs == { EmptyStr, <<" ">>, <<"a">>, <<" ", "a">> }

\* ------------------------------------------------------------ SearchResults
\* An absent optional property (url, image).
Undefined == "undefined"

\* One entry of a result sequence.  An entry of `suggestions` (a bare string
\* in SearchResults) is the entry whose name is that string.
Entry(n, u) == [name |-> n, url |-> u, image |-> Undefined]

\* A property of the results object: absent, null, or an array.
Absent == [kind |-> "undefined", items |-> <<>>]
NullField == [kind |-> "null", items |-> <<>>]
Arr(xs) == [kind |-> "array", items |-> xs]

\* `field?.length`: undefined for an absent or null property.
LengthOf(f) == IF f.kind = "array" THEN Len(f.items) ELSE 0

\* `{}`
EmptyResults ==
  [isNull |-> FALSE, suggestions |-> Absent, products |-> Absent, pages |-> Absent]

\* null / undefined in place of the results object
NullResults ==
  [isNull |-> TRUE, suggestions |-> Absent, products |-> Absent, pages |-> Absent]

ItemA == Entry(<<"A">>, "/products/a")
ItemB == Entry(<<"a", "b">>, Undefined)

\* Values a host hands to setResults, or an endpoint answers with.
Payloads ==
  { EmptyResults,
    NullResults,
    [EmptyResults EXCEPT !.suggestions = Arr(<<>>), !.products = Arr(<<>>),
                         !.pages = Arr(<<>>)],
    [EmptyResults EXCEPT !.suggestions = Arr(<<ItemB>>)],
    [EmptyResults EXCEPT !.products = Arr(<<ItemA>>)],
    [EmptyResults EXCEPT !.suggestions = NullField,
                         !.pages = Arr(<<ItemA, ItemA>>)],
    [EmptyResults EXCEPT !.suggestions = Arr(<<ItemB>>),
                         !.products = Arr(<<ItemB, ItemA>>),
                         !.pages = Arr(<<ItemA>>)] }

\* ------------------------------------------------------------------- state
NoTimer == 0

VARIABLES
  apiEndpoint,    \* @property apiEndpoint: "" or an endpoint
  open,           \* @property open
  searchQuery,    \* @state searchQuery
  results,        \* @state results
  loading,        \* @state loading
  debounceTimer,  \* private debounceTimer: NoTimer (null) or a timer id
  timers,         \* browser: ids of the setTimeout callbacks still pending
  nextTimerId,    \* browser: the id the next window.setTimeout returns
  inflight,       \* browser: fetch() requests not yet settled
  emitted,        \* the events dispatched by the last handler, in order
  lastOp,         \* the last handler that ran, with its argument
  lastKey,        \* the raw value of the most recent keystroke
  searches,       \* queries of the performSearch calls since that keystroke
  preClear,       \* ids of the timers that were pending when handleClear ran
  connected,      \* the element is in the document
  listeners,      \* window: 'zb-search-response' listeners bound to this element
  hlText,         \* highlightMatch: its argument text
  hlQuery,        \* highlightMatch: its argument query
  hlResult,       \* highlightMatch: the template it returned, <<>> before the call
  peer            \* a second <zb-search-autocomplete> element of the same page

vars ==
  << apiEndpoint, open, searchQuery, results, loading, debounceTimer, timers,
     nextTimerId, inflight, emitted, lastOp, lastKey, searches, preClear,
     connected, listeners, hlText, hlQuery, hlResult, peer >>

\* The state of the side channel.
channel == << connected, listeners >>

\* The call of highlightMatch under study.
highlight == << hlText, hlQuery, hlResult >>

\* The reactive fields of the component, as one value.
Widget ==
  [searchQuery |-> searchQuery, results |-> results, loading |-> loading,
   open |-> open]

\* apiEndpoint = '' selects the delegated strategy.
NoEndpoint == ""

Endpoints == { NoEndpoint, "/api/search" }

\* The reactive fields and the side-channel state of an element that was
\* just constructed, without an endpoint.
NewElement ==
  [searchQuery |-> EmptyStr, results |-> EmptyResults, loading |-> FALSE,
   open |-> FALSE, connected |-> FALSE, listeners |-> 0]

Init ==
  /\ apiEndpoint \in Endpoints
  /\ open = FALSE
  /\ searchQuery = EmptyStr
  /\ results = EmptyResults
  /\ loading = FALSE
  /\ debounceTimer = NoTimer
  /\ timers = {}
  /\ nextTimerId = 1
  /\ inflight = {}
  /\ emitted = <<>>
  /\ lastOp = [op |-> "init"]
  /\ lastKey = EmptyStr
  /\ preClear = {}
  /\ hlText = EmptyStr
  /\ hlQuery = EmptyStr
  /\ hlResult = <<>>
  /\ peer = NewElement
  /\ searches = <<>>
  /\ connected = FALSE
  /\ listeners = 0

\* ------------------------------------------------------------------ events
NoDetail == [k \in {} |-> ""]

CustomEvent(n, d) == [name |-> n, detail |-> d]

\* ------------------------------------------------------------------ render
Section(kind, entries, text) == [section |-> kind, entries |-> entries, text |-> text]

renderLoading(w) ==
  IF ~w.loading THEN <<>> ELSE << Section("loading", <<>>, EmptyStr) >>

renderSuggestions(w) ==
  IF LengthOf(w.results.suggestions) = 0 THEN <<>>
  ELSE << Section("suggestions", w.results.suggestions.items, EmptyStr) >>

\* renderProducts that gives way to the suggestions section.
renderProductsUnlessSuggestions(w) ==
  IF LengthOf(w.results.products) = 0 \/ LengthOf(w.results.suggestions) # 0
    THEN <<>>
    ELSE << Section("products", w.results.products.items, EmptyStr) >>

renderProducts(w) ==
  IF LengthOf(w.results.products) = 0 THEN <<>>
  ELSE << Section("products", w.results.products.items, EmptyStr) >>

renderPages(w) ==
  IF LengthOf(w.results.pages) = 0 THEN <<>>
  ELSE << Section("pages", w.results.pages.items, EmptyStr) >>

\* renderEmpty that waits for a search to have been made since the keystroke.
renderEmptyOnceSearched(w) ==
  IF \/ w.loading
     \/ ~Truthy(w.searchQuery)
     \/ LengthOf(w.results.suggestions) # 0
     \/ LengthOf(w.results.products) # 0
     \/ LengthOf(w.results.pages) # 0
     \/ searches = <<>>
    THEN <<>>
    ELSE << Section("empty", <<>>, w.searchQuery) >>

\* renderEmpty that does not look at loading.
renderEmptyWhileLoading(w) ==
  IF \/ ~Truthy(w.searchQuery)
     \/ LengthOf(w.results.suggestions) # 0
     \/ LengthOf(w.results.products) # 0
     \/ LengthOf(w.results.pages) # 0
    THEN <<>>
    ELSE << Section("empty", <<>>, w.searchQuery) >>

renderEmpty(w) ==
  IF \/ w.loading
     \/ ~Truthy(w.searchQuery)
     \/ LengthOf(w.results.suggestions) # 0
     \/ LengthOf(w.results.products) # 0
     \/ LengthOf(w.results.pages) # 0
    THEN <<>>
    ELSE << Section("empty", <<>>, w.searchQuery) >>

\* render() that draws the pages section above the suggestions.
renderPagesFirst(w) ==
  IF ~w.open THEN [threw |-> FALSE, sections |-> <<>>]
  ELSE IF w.results.isNull THEN [threw |-> TRUE, sections |-> <<>>]
  ELSE [threw |-> FALSE,
        sections |-> renderLoading(w) \o renderPages(w) \o renderSuggestions(w)
                       \o renderProducts(w) \o renderEmpty(w)]

\* render() that draws the dropdown whether or not it is open.
renderIgnoringOpen(w) ==
  IF w.results.isNull THEN [threw |-> TRUE, sections |-> <<>>]
  ELSE [threw |-> FALSE,
        sections |-> renderLoading(w) \o renderSuggestions(w) \o renderProducts(w)
                       \o renderPages(w) \o renderEmpty(w)]

\* render(): the sections of the dropdown, top to bottom.  Reading a property
\* of a null results object throws a TypeError.
render(w) ==
  IF ~w.open THEN [threw |-> FALSE, sections |-> <<>>]
  ELSE IF w.results.isNull THEN [threw |-> TRUE, sections |-> <<>>]
  ELSE [threw |-> FALSE,
        sections |-> renderLoading(w) \o renderSuggestions(w) \o renderProducts(w)
                       \o renderPages(w) \o renderEmpty(w)]

\* ---------------------------------------------------------------- handlers
\* handleInput with the dispatch of 'search-input' left to the timer callback.
handleInputDeferred(v) == <<>>

\* handleInput: the events it dispatches.
handleInputEvents(v) == << CustomEvent("search-input", [query |-> v]) >>

\* handleInput that leaves the previous timer in the queue.
TimersNotCleared == timers

\* handleInput: `if (this.debounceTimer) clearTimeout(this.debounceTimer)`.
\* Clearing the id of a timer that has already fired changes nothing.
TimersAfterClear ==
  IF debounceTimer # NoTimer THEN timers \ {debounceTimer} ELSE timers

handleInput(v) ==
  /\ searchQuery' = v
  /\ emitted' = handleInputEvents(v)
  /\ IF Truthy(Trim(v))
       THEN /\ nextTimerId <= MaxTimerId
            /\ open' = TRUE
            /\ debounceTimer' = nextTimerId
            /\ timers' = TimersAfterClear \cup {nextTimerId}
            /\ nextTimerId' = nextTimerId + 1
            /\ UNCHANGED results
       ELSE /\ open' = FALSE
            /\ results' = EmptyResults
            /\ timers' = TimersAfterClear
            /\ UNCHANGED << debounceTimer, nextTimerId >>
  /\ lastOp' = [op |-> "handleInput", arg |-> v]
  /\ UNCHANGED channel
  /\ UNCHANGED highlight
  /\ UNCHANGED peer
  /\ lastKey' = v
  /\ searches' = <<>>
  /\ preClear' = preClear \cap timers'
  /\ UNCHANGED << apiEndpoint, loading, inflight >>

\* performSearch that fetches whether or not an endpoint is configured.
timerCallbackAlwaysFetching(id) ==
  /\ id \in timers
  /\ timers' = timers \ {id}
  /\ searches' = Append(searches, searchQuery)
  /\ IF ~Truthy(Trim(searchQuery))
       THEN UNCHANGED << loading, inflight >>
       ELSE /\ loading' = TRUE
            /\ inflight' = inflight \cup {[id |-> id, q |-> searchQuery]}
  /\ emitted' = <<>>
  /\ lastOp' = [op |-> "timerCallback", searched |-> Truthy(Trim(searchQuery)),
                 stale |-> id \in preClear]
  /\ preClear' = preClear \ {id}
  /\ UNCHANGED channel
  /\ UNCHANGED highlight
  /\ UNCHANGED peer
  /\ UNCHANGED << apiEndpoint, open, searchQuery, results, debounceTimer,
                  nextTimerId, lastKey >>

\* performSearch that searches for the value of the last keystroke.
timerCallbackForLastKey(id) ==
  /\ id \in timers
  /\ timers' = timers \ {id}
  /\ searches' = Append(searches, lastKey)
  /\ IF ~Truthy(Trim(searchQuery))
       THEN UNCHANGED << loading, inflight >>
       ELSE IF apiEndpoint # NoEndpoint
              THEN /\ loading' = TRUE
                   /\ inflight' = inflight \cup {[id |-> id, q |-> lastKey]}
              ELSE /\ loading' = FALSE
                   /\ UNCHANGED inflight
  /\ emitted' = <<>>
  /\ lastOp' = [op |-> "timerCallback", searched |-> Truthy(Trim(searchQuery)),
                 stale |-> id \in preClear]
  /\ preClear' = preClear \ {id}
  /\ UNCHANGED channel
  /\ UNCHANGED highlight
  /\ UNCHANGED peer
  /\ UNCHANGED << apiEndpoint, open, searchQuery, results, debounceTimer,
                  nextTimerId, lastKey >>

\* The setTimeout callback `() => this.performSearch()` of timer id, and
\* performSearch up to its first await.  Without an endpoint the try block is
\* empty and the finally block clears loading before the callback returns.
\* lastOp.searched: performSearch got past its blank-query return and ran
\* `this.loading = true`; lastOp.stale: the timer was armed before a Clear.
timerCallback(id) ==
  /\ id \in timers
  /\ timers' = timers \ {id}
  /\ searches' = Append(searches, searchQuery)
  /\ IF ~Truthy(Trim(searchQuery))
       THEN UNCHANGED << loading, inflight >>
       ELSE IF apiEndpoint # NoEndpoint
              THEN /\ loading' = TRUE
                   /\ inflight' = inflight \cup {[id |-> id, q |-> searchQuery]}
              ELSE /\ loading' = FALSE
                   /\ UNCHANGED inflight
  /\ emitted' = <<>>
  /\ lastOp' = [op |-> "timerCallback", searched |-> Truthy(Trim(searchQuery)),
                 stale |-> id \in preClear]
  /\ preClear' = preClear \ {id}
  /\ UNCHANGED channel
  /\ UNCHANGED highlight
  /\ UNCHANGED peer
  /\ UNCHANGED << apiEndpoint, open, searchQuery, results, debounceTimer,
                  nextTimerId, lastKey >>

\* The fetch continuation that stores the body only for the latest request.
fetchFulfilledLatestOnly(r, p) ==
  /\ r \in inflight
  /\ inflight' = inflight \ {r}
  /\ results' = IF r.id = debounceTimer THEN p ELSE results
  /\ loading' = FALSE
  /\ emitted' = <<>>
  /\ lastOp' = [op |-> "fetchFulfilled", arg |-> p, id |-> r.id]
  /\ UNCHANGED channel
  /\ UNCHANGED highlight
  /\ UNCHANGED peer
  /\ UNCHANGED << apiEndpoint, open, searchQuery, debounceTimer, timers,
                  nextTimerId, lastKey, searches, preClear >>

\* performSearch after `await fetch(...)` and `await response.json()` both
\* fulfil: the decoded body p is stored, then finally clears loading.
fetchFulfilled(r, p) ==
  /\ r \in inflight
  /\ inflight' = inflight \ {r}
  /\ results' = p
  /\ loading' = FALSE
  /\ emitted' = <<>>
  /\ lastOp' = [op |-> "fetchFulfilled", arg |-> p, id |-> r.id]
  /\ UNCHANGED channel
  /\ UNCHANGED highlight
  /\ UNCHANGED peer
  /\ UNCHANGED << apiEndpoint, open, searchQuery, debounceTimer, timers,
                  nextTimerId, lastKey, searches, preClear >>

\* performSearch whose catch block only logs.
fetchRejectedKeepingResults(r) ==
  /\ r \in inflight
  /\ inflight' = inflight \ {r}
  /\ loading' = FALSE
  /\ emitted' = <<>>
  /\ lastOp' = [op |-> "fetchRejected"]
  /\ UNCHANGED channel
  /\ UNCHANGED highlight
  /\ UNCHANGED peer
  /\ UNCHANGED << apiEndpoint, open, searchQuery, results, debounceTimer,
                  timers, nextTimerId, lastKey, searches, preClear >>

\* performSearch without its finally block: a failure leaves loading set.
fetchRejectedLeavingLoading(r) ==
  /\ r \in inflight
  /\ inflight' = inflight \ {r}
  /\ results' = EmptyResults
  /\ UNCHANGED loading
  /\ emitted' = <<>>
  /\ lastOp' = [op |-> "fetchRejected"]
  /\ UNCHANGED channel
  /\ UNCHANGED highlight
  /\ UNCHANGED peer
  /\ UNCHANGED << apiEndpoint, open, searchQuery, debounceTimer, timers,
                  nextTimerId, lastKey, searches, preClear >>

\* performSearch when either await rejects: the catch block logs and stores {},
\* then finally clears loading.
fetchRejected(r) ==
  /\ r \in inflight
  /\ inflight' = inflight \ {r}
  /\ results' = EmptyResults
  /\ loading' = FALSE
  /\ emitted' = <<>>
  /\ lastOp' = [op |-> "fetchRejected"]
  /\ UNCHANGED channel
  /\ UNCHANGED highlight
  /\ UNCHANGED peer
  /\ UNCHANGED << apiEndpoint, open, searchQuery, debounceTimer, timers,
                  nextTimerId, lastKey, searches, preClear >>

\* setResults that also opens the dropdown.
setResultsAndOpen(w, p) ==
  [w EXCEPT !.results = p, !.loading = FALSE, !.open = TRUE]

\* setResults that appends the new products to the stored ones.
setResultsMerging(w, p) ==
  [w EXCEPT !.results = [p EXCEPT !.products =
                            IF w.results.products.kind = "array" /\ p.products.kind = "array"
                              THEN Arr(w.results.products.items \o p.products.items)
                              ELSE p.products],
            !.loading = FALSE]

\* setResults(results): the fields of the component after the call.
setResultsEffect(w, p) == [w EXCEPT !.results = p, !.loading = FALSE]

setResults(p) ==
  /\ searchQuery' = setResultsEffect(Widget, p).searchQuery
  /\ results' = setResultsEffect(Widget, p).results
  /\ loading' = setResultsEffect(Widget, p).loading
  /\ open' = setResultsEffect(Widget, p).open
  /\ emitted' = <<>>
  /\ lastOp' = [op |-> "setResults", arg |-> p]
  /\ UNCHANGED channel
  /\ UNCHANGED highlight
  /\ UNCHANGED peer
  /\ UNCHANGED << apiEndpoint, debounceTimer, timers, nextTimerId, inflight,
                  lastKey, searches, preClear >>

\* handleSubmit that also closes the dropdown.
handleSubmitClosing ==
  /\ emitted' = << CustomEvent("search-submit", [query |-> searchQuery]) >>
  /\ open' = FALSE
  /\ lastOp' = [op |-> "handleSubmit"]
  /\ UNCHANGED channel
  /\ UNCHANGED highlight
  /\ UNCHANGED peer
  /\ UNCHANGED << apiEndpoint, searchQuery, results, loading, debounceTimer,
                  timers, nextTimerId, inflight, lastKey, searches, preClear >>

\* handleSubmit: preventDefault, then dispatch 'search-submit'.
handleSubmit ==
  /\ emitted' = << CustomEvent("search-submit", [query |-> searchQuery]) >>
  /\ lastOp' = [op |-> "handleSubmit"]
  /\ UNCHANGED channel
  /\ UNCHANGED highlight
  /\ UNCHANGED peer
  /\ UNCHANGED << apiEndpoint, open, searchQuery, results, loading,
                  debounceTimer, timers, nextTimerId, inflight, lastKey,
                  searches, preClear >>

\* handleClear that also clears loading.
handleClearResettingLoading(w) ==
  [w EXCEPT !.searchQuery = EmptyStr, !.results = EmptyResults,
            !.open = FALSE, !.loading = FALSE]

\* handleClear that keeps the stored results.
handleClearKeepingResults(w) ==
  [w EXCEPT !.searchQuery = EmptyStr, !.open = FALSE]

\* handleClear: the fields of the component after the call.
handleClearEffect(w) ==
  [w EXCEPT !.searchQuery = EmptyStr, !.results = EmptyResults, !.open = FALSE]

\* The clear button is rendered only while searchQuery is truthy.  The
\* pending timer is not cleared.
handleClear ==
  /\ Truthy(searchQuery)
  /\ searchQuery' = handleClearEffect(Widget).searchQuery
  /\ results' = handleClearEffect(Widget).results
  /\ loading' = handleClearEffect(Widget).loading
  /\ open' = handleClearEffect(Widget).open
  /\ emitted' = << CustomEvent("search-clear", NoDetail) >>
  /\ lastOp' = [op |-> "handleClear"]
  /\ preClear' = timers
  /\ UNCHANGED channel
  /\ UNCHANGED highlight
  /\ UNCHANGED peer
  /\ UNCHANGED << apiEndpoint, debounceTimer, timers, nextTimerId, inflight,
                  lastKey, searches >>

\* handleClose that also drops the stored results.
handleCloseDroppingResults(w) ==
  [w EXCEPT !.open = FALSE, !.results = EmptyResults]

\* handleClose: the fields of the component after the call.
handleCloseEffect(w) == [w EXCEPT !.open = FALSE]

\* handleClose that also cancels the pending debounce timer.
handleCloseCancelling ==
  /\ searchQuery' = handleCloseEffect(Widget).searchQuery
  /\ results' = handleCloseEffect(Widget).results
  /\ loading' = handleCloseEffect(Widget).loading
  /\ open' = handleCloseEffect(Widget).open
  /\ timers' = TimersAfterClear
  /\ emitted' = << CustomEvent("search-close", NoDetail) >>
  /\ lastOp' = [op |-> "handleClose"]
  /\ UNCHANGED channel
  /\ UNCHANGED highlight
  /\ UNCHANGED peer
  /\ UNCHANGED << apiEndpoint, debounceTimer, nextTimerId, inflight,
                  lastKey, searches, preClear >>

handleClose ==
  /\ searchQuery' = handleCloseEffect(Widget).searchQuery
  /\ results' = handleCloseEffect(Widget).results
  /\ loading' = handleCloseEffect(Widget).loading
  /\ open' = handleCloseEffect(Widget).open
  /\ emitted' = << CustomEvent("search-close", NoDetail) >>
  /\ lastOp' = [op |-> "handleClose"]
  /\ UNCHANGED channel
  /\ UNCHANGED highlight
  /\ UNCHANGED peer
  /\ UNCHANGED << apiEndpoint, debounceTimer, timers, nextTimerId, inflight,
                  lastKey, searches, preClear >>

\* The entries a click can land on: those of the sections render() draws.
Clickable ==
  LET r == render(Widget) IN
  { [type |-> t, entry |-> e] :
      t \in {"suggestion", "product", "page"}, e \in {ItemA, ItemB} }
  \cap
  UNION { { [type |-> CASE r.sections[i].section = "suggestions" -> "suggestion"
                        [] r.sections[i].section = "products" -> "product"
                        [] r.sections[i].section = "pages" -> "page"
                        [] OTHER -> "none",
             entry |-> r.sections[i].entries[j]] :
            j \in 1..Len(r.sections[i].entries) } :
          i \in 1..Len(r.sections) }

\* handleSuggestionClick(suggestion, type), called from the @click of a
\* rendered entry with the entry's name and the tag of its section.
handleSuggestionClick(c) ==
  /\ c \in Clickable
  /\ searchQuery' = c.entry.name
  /\ emitted' = << CustomEvent("suggestion-click",
                               [suggestion |-> c.entry.name, type |-> c.type]) >>
  /\ lastOp' = [op |-> "handleSuggestionClick", arg |-> c]
  /\ UNCHANGED channel
  /\ UNCHANGED highlight
  /\ UNCHANGED peer
  /\ UNCHANGED << apiEndpoint, open, results, loading, debounceTimer, timers,
                  nextTimerId, inflight, lastKey, searches, preClear >>

\* ------------------------------------------------------------ side channel
\* The listing of the component in README.md adds a listener for the window
\* event 'zb-search-response' to the handlers above.

\* connectedCallback is run at most MaxListeners times in one behaviour.
MaxListeners == 2

\* The detail of a 'zb-search-response' event: absent, without data, or with
\* a data object.
Envelope(d, p) == [hasDetail |-> d, data |-> p]

Envelopes ==
  { Envelope(FALSE, NullResults), Envelope(TRUE, NullResults) }
  \cup { Envelope(TRUE, p) :
           p \in { EmptyResults,
                   [EmptyResults EXCEPT !.products = Arr(<<ItemA>>)],
                   [EmptyResults EXCEPT !.suggestions = Arr(<<ItemB>>),
                                        !.products = Arr(<<ItemB, ItemA>>),
                                        !.pages = Arr(<<ItemA>>)] } }

\* The test `e.detail`, in place of `e.detail?.data`.
HasDetail(e) == e.hasDetail

\* `e.detail?.data` is an object.
HasData(e) == e.hasDetail /\ ~e.data.isNull

\* `field || []`
OrEmptyArray(f) == IF f.kind = "array" THEN f ELSE Arr(<<>>)

\* handleSearchResponse that stores the data without opening the dropdown.
handleSearchResponseNotOpening(w, e) ==
  IF ~HasData(e) THEN w
  ELSE [w EXCEPT !.results = [isNull |-> FALSE,
                              suggestions |-> OrEmptyArray(e.data.suggestions),
                              products |-> OrEmptyArray(e.data.products),
                              pages |-> Absent],
                 !.loading = FALSE]

\* handleSearchResponse that drops a response arriving under an empty query.
handleSearchResponseIfQuery(w, e) ==
  IF ~HasData(e) \/ ~Truthy(w.searchQuery) THEN w
  ELSE [w EXCEPT !.results = [isNull |-> FALSE,
                              suggestions |-> OrEmptyArray(e.data.suggestions),
                              products |-> OrEmptyArray(e.data.products),
                              pages |-> Absent],
                 !.loading = FALSE,
                 !.open = TRUE]

\* handleSearchResponse that keeps the pages stored before.
handleSearchResponseKeepingPages(w, e) ==
  IF ~HasData(e) THEN w
  ELSE [w EXCEPT !.results = [isNull |-> FALSE,
                              suggestions |-> OrEmptyArray(e.data.suggestions),
                              products |-> OrEmptyArray(e.data.products),
                              pages |-> IF w.results.isNull THEN Absent
                                        ELSE w.results.pages],
                 !.loading = FALSE,
                 !.open = TRUE]

\* handleSearchResponse(e): the fields of the component after the call.
handleSearchResponse(w, e) ==
  IF ~HasData(e) THEN w
  ELSE [w EXCEPT !.results = [isNull |-> FALSE,
                              suggestions |-> OrEmptyArray(e.data.suggestions),
                              products |-> OrEmptyArray(e.data.products),
                              pages |-> Absent],
                 !.loading = FALSE,
                 !.open = TRUE]

\* addEventListener with a newly bound function always adds a listener.
connectedCallback ==
  /\ ~connected
  /\ listeners < MaxListeners
  /\ connected' = TRUE
  /\ listeners' = listeners + 1
  /\ emitted' = <<>>
  /\ lastOp' = [op |-> "connectedCallback"]
  /\ UNCHANGED highlight
  /\ UNCHANGED peer
  /\ UNCHANGED << apiEndpoint, open, searchQuery, results, loading,
                  debounceTimer, timers, nextTimerId, inflight, lastKey,
                  searches, preClear >>

\* removeEventListener is given `this.handleSearchResponse.bind(this)`, a
\* function that was never added, so it removes nothing.
ListenersAfterRemove == listeners

disconnectedCallback ==
  /\ connected
  /\ connected' = FALSE
  /\ listeners' = ListenersAfterRemove
  /\ emitted' = <<>>
  /\ lastOp' = [op |-> "disconnectedCallback"]
  /\ UNCHANGED highlight
  /\ UNCHANGED peer
  /\ UNCHANGED << apiEndpoint, open, searchQuery, results, loading,
                  debounceTimer, timers, nextTimerId, inflight, lastKey,
                  searches, preClear >>

\* The component after n listeners have handled the event, one after another.
RECURSIVE HandledBy(_, _, _)
HandledBy(n, w, e) ==
  IF n = 0 THEN w ELSE HandledBy(n - 1, handleSearchResponse(w, e), e)

\* The fields of an element, with the query, the results, loading and open
\* taken from w.
WithFields(el, w) ==
  [el EXCEPT !.searchQuery = w.searchQuery, !.results = w.results,
             !.loading = w.loading, !.open = w.open]

\* A broadcast that does not reach the second element.
PeerNotReached(e) == peer

\* The second element after its listeners have handled the broadcast.
PeerAfterBroadcast(e) == WithFields(peer, HandledBy(peer.listeners, peer, e))

\* The handlers of the second element, without an endpoint: its timer
\* callback then changes none of its fields and is left out.
peerStep(op, el) ==
  /\ peer' = el
  /\ emitted' = <<>>
  /\ lastOp' = [op |-> op]
  /\ UNCHANGED channel
  /\ UNCHANGED highlight
  /\ UNCHANGED << apiEndpoint, open, searchQuery, results, loading,
                  debounceTimer, timers, nextTimerId, inflight, lastKey,
                  searches, preClear >>

\* handleInput: the fields of the element after a keystroke of value v.
handleInputEffect(w, v) ==
  IF Truthy(Trim(v))
    THEN [w EXCEPT !.searchQuery = v, !.open = TRUE]
    ELSE [w EXCEPT !.searchQuery = v, !.open = FALSE,
                   !.results = EmptyResults]

peerHandleInput(v) == peerStep("peerHandleInput", handleInputEffect(peer, v))

peerHandleClose ==
  /\ peer.open
  /\ peerStep("peerHandleClose", handleCloseEffect(peer))

peerConnectedCallback ==
  /\ ~peer.connected
  /\ peer.listeners < MaxListeners
  /\ peerStep("peerConnectedCallback",
              [peer EXCEPT !.connected = TRUE, !.listeners = @ + 1])

\* The host dispatches 'zb-search-response' on window: every listener bound to
\* this element runs handleSearchResponse.  lastOp.applied counts the runs that
\* found data.
dispatchSearchResponse(e) ==
  /\ searchQuery' = HandledBy(listeners, Widget, e).searchQuery
  /\ results' = HandledBy(listeners, Widget, e).results
  /\ loading' = HandledBy(listeners, Widget, e).loading
  /\ open' = HandledBy(listeners, Widget, e).open
  /\ emitted' = <<>>
  /\ lastOp' = [op |-> "dispatchSearchResponse", arg |-> e,
                 applied |-> IF HasData(e) THEN listeners ELSE 0]
  /\ peer' = PeerAfterBroadcast(e)
  /\ UNCHANGED highlight
  /\ UNCHANGED << apiEndpoint, debounceTimer, timers, nextTimerId, inflight,
                  lastKey, searches, preClear, connected, listeners >>

\* ------------------------------------------------------------ highlighting
\* The listing of the component in README.md draws the name of every entry
\* through highlightMatch(name, this.searchQuery).

\* Two code units outside ASCII: LATIN CAPITAL LETTER I WITH DOT ABOVE, and
\* COMBINING DOT ABOVE.
DottedI == "U+0130"
CombiningDot == "U+0307"

Alphabet == { "A", "a", "b", DottedI }

\* The longest text and the longest query highlightMatch is applied to.
MaxTextLen == 3
MaxQueryLen == 2

RECURSIVE StringsUpTo(_)
StringsUpTo(n) ==
  IF n = 0 THEN { EmptyStr }
  ELSE LET shorter == StringsUpTo(n - 1)
       IN shorter \cup { Append(s, c) : s \in shorter, c \in Alphabet }

Texts == StringsUpTo(MaxTextLen)
Queries == StringsUpTo(MaxQueryLen)

\* String.prototype.toLowerCase on one code unit.  U+0130 lower-cases to the
\* two code units "i", U+0307.
LowerOfUnit(c) ==
  CASE c = "A" -> << "a" >>
    [] c = DottedI -> << "i", CombiningDot >>
    [] OTHER -> << c >>

RECURSIVE toLowerCase(_)
toLowerCase(s) ==
  IF s = EmptyStr THEN EmptyStr
  ELSE LowerOfUnit(Head(s)) \o toLowerCase(Tail(s))

\* s.indexOf(t): the index, from 0, of the first occurrence of t in s, or -1.
indexOf(s, t) ==
  LET hits == { i \in 0..(Len(s) - Len(t)) : SubSeq(s, i + 1, i + Len(t)) = t }
  IN IF hits = {} THEN -1 ELSE CHOOSE i \in hits : \A j \in hits : i <= j

\* s.substring(a, b): both indexes are clamped to 0..s.length and swapped
\* when a > b.
ClampIndex(s, i) == IF i < 0 THEN 0 ELSE IF i > Len(s) THEN Len(s) ELSE i

substring(s, a, b) ==
  LET x == ClampIndex(s, a)
      y == ClampIndex(s, b)
  IN IF x <= y THEN SubSeq(s, x + 1, y) ELSE SubSeq(s, y + 1, x)

\* s.substring(a)
substringFrom(s, a) == substring(s, a, Len(s))

\* One piece of the returned template: bare text, a <span>, or a
\* <span class="highlight-bold">.
Piece(s, b, t) == [span |-> s, bold |-> b, text |-> t]

\* highlightMatch that marks the whole text when the query is not found.
highlightMatchMarkingMisses(text, query) ==
  IF ~Truthy(query) THEN << Piece(FALSE, FALSE, text) >>
  ELSE LET index == indexOf(toLowerCase(text), toLowerCase(query))
       IN IF index = -1 THEN << Piece(TRUE, TRUE, text) >>
          ELSE << Piece(TRUE, FALSE, substring(text, 0, index)),
                  Piece(TRUE, TRUE,
                        substring(text, index, index + Len(query))),
                  Piece(TRUE, FALSE,
                        substringFrom(text, index + Len(query))) >>

highlightMatch(text, query) ==
  IF ~Truthy(query) THEN << Piece(FALSE, FALSE, text) >>
  ELSE LET index == indexOf(toLowerCase(text), toLowerCase(query))
       IN IF index = -1 THEN << Piece(TRUE, FALSE, text) >>
          ELSE << Piece(TRUE, FALSE, substring(text, 0, index)),
                  Piece(TRUE, TRUE,
                        substring(text, index, index + Len(query))),
                  Piece(TRUE, FALSE,
                        substringFrom(text, index + Len(query))) >>

\* One call highlightMatch(hlText, hlQuery).
highlightMatchCall ==
  /\ hlResult = <<>>
  /\ hlResult' = highlightMatch(hlText, hlQuery)
  /\ emitted' = <<>>
  /\ lastOp' = [op |-> "highlightMatch"]
  /\ UNCHANGED << hlText, hlQuery >>
  /\ UNCHANGED channel
  /\ UNCHANGED peer
  /\ UNCHANGED << apiEndpoint, open, searchQuery, results, loading,
                  debounceTimer, timers, nextTimerId, inflight, lastKey,
                  searches, preClear >>

\* ----------------------------------------------------------- specifications
Next ==
  \/ \E v \in Inputs : handleInput(v)
  \/ \E id \in timers : timerCallback(id)
  \/ \E r \in inflight, p \in Payloads : fetchFulfilled(r, p)
  \/ \E r \in inflight : fetchRejected(r)
  \/ \E p \in Payloads : setResults(p)
  \/ handleSubmit
  \/ handleClear
  \/ handleClose
  \/ \E c \in Clickable : handleSuggestionClick(c)

Spec == Init /\ [][Next]_vars

\* Keystrokes and the debounce timer only: what the user's typing alone does.
NextKeys ==
  \/ \E v \in Inputs : handleInput(v)
  \/ \E id \in timers : timerCallback(id)

SpecKeys == Init /\ [][NextKeys]_vars

\* The component with the side channel of the README listing.  That listing
\* has no self-fetch strategy: results arrive through setResults or through
\* the side channel, so no endpoint is configured.
InitChannel == Init /\ apiEndpoint = NoEndpoint

NextChannel ==
  \/ \E v \in Inputs : handleInput(v)
  \/ \E id \in timers : timerCallback(id)
  \/ \E p \in Payloads : setResults(p)
  \/ handleSubmit
  \/ handleClear
  \/ handleClose
  \/ \E c \in Clickable : handleSuggestionClick(c)
  \/ connectedCallback
  \/ disconnectedCallback
  \/ \E e \in Envelopes : dispatchSearchResponse(e)

SpecChannel == InitChannel /\ [][NextChannel]_vars

\* The element of part_000 with an endpoint configured, in a page that also
\* broadcasts 'zb-search-response': the handlers of both listings, driven by
\* fewer distinct keystrokes, payloads and envelopes.
AllInputs == { <<" ">>, <<"a">> }

AllPayloads ==
  { [EmptyResults EXCEPT !.suggestions = Arr(<<ItemB>>),
                         !.products = Arr(<<ItemB, ItemA>>),
                         !.pages = Arr(<<ItemA>>)] }

AllEnvelopes == { Envelope(TRUE, NullResults) } \cup
                { Envelope(TRUE, p) : p \in AllPayloads }

InitAll == Init /\ apiEndpoint # NoEndpoint

NextAll ==
  \/ \E v \in AllInputs : handleInput(v)
  \/ \E id \in timers : timerCallback(id)
  \/ \E r \in inflight, p \in AllPayloads : fetchFulfilled(r, p)
  \/ \E r \in inflight : fetchRejected(r)
  \/ \E p \in AllPayloads : setResults(p)
  \/ handleSubmit
  \/ handleClear
  \/ handleClose
  \/ \E c \in Clickable : handleSuggestionClick(c)
  \/ connectedCallback
  \/ disconnectedCallback
  \/ \E e \in AllEnvelopes : dispatchSearchResponse(e)

SpecAll == InitAll /\ [][NextAll]_vars

\* highlightMatch alone, applied once to a text and a query.
InitHighlight ==
  /\ apiEndpoint = NoEndpoint
  /\ open = FALSE
  /\ searchQuery = EmptyStr
  /\ results = EmptyResults
  /\ loading = FALSE
  /\ debounceTimer = NoTimer
  /\ timers = {}
  /\ nextTimerId = 1
  /\ inflight = {}
  /\ emitted = <<>>
  /\ lastOp = [op |-> "init"]
  /\ lastKey = EmptyStr
  /\ searches = <<>>
  /\ preClear = {}
  /\ connected = FALSE
  /\ listeners = 0
  /\ hlText \in Texts
  /\ hlQuery \in Queries
  /\ hlResult = <<>>
  /\ peer = NewElement

NextHighlight == highlightMatchCall

SpecHighlight == InitHighlight /\ [][NextHighlight]_vars

\* The element with an endpoint configured, when every request that was
\* issued is eventually answered or fails: the continuation of performSearch
\* after its await is eventually run for each request in flight.  Fewer
\* distinct keystrokes and payloads, as in SpecAll.
fetchSettles ==
  \E r \in inflight :
    (\E p \in AllPayloads : fetchFulfilled(r, p)) \/ fetchRejected(r)

InitFetch == Init /\ apiEndpoint # NoEndpoint

NextFetch ==
  \/ \E v \in AllInputs : handleInput(v)
  \/ \E id \in timers : timerCallback(id)
  \/ \E r \in inflight, p \in AllPayloads : fetchFulfilled(r, p)
  \/ \E r \in inflight : fetchRejected(r)
  \/ \E p \in AllPayloads : setResults(p)
  \/ handleSubmit
  \/ handleClear
  \/ handleClose
  \/ \E c \in Clickable : handleSuggestionClick(c)

SpecFetch == InitFetch /\ [][NextFetch]_vars /\ WF_vars(fetchSettles)

\* Two elements in one page that broadcasts 'zb-search-response', neither
\* with an endpoint.
NextPeers ==
  \/ \E v \in AllInputs : handleInput(v)
  \/ \E id \in timers : timerCallback(id)
  \/ handleClose
  \/ connectedCallback
  \/ \E v \in AllInputs : peerHandleInput(v)
  \/ peerHandleClose
  \/ peerConnectedCallback
  \/ \E e \in AllEnvelopes : dispatchSearchResponse(e)

SpecPeers == InitChannel /\ [][NextPeers]_vars

\* Every character of s is white space (so s.trim() is the empty string).
IsBlank(s) == \A i \in 1..Len(s) : s[i] \in WhiteSpace

\* C1 (as stated): once the debounce delay has passed after a run of
\* keystrokes (no timer is pending any more), exactly one Search Trigger has
\* fired since the last keystroke, with the value of that keystroke.
C1_ExactlyOneSearchPerBurst ==
  (lastOp.op # "init" /\ timers = {}) => searches = << lastKey >>

\* C1 (amended): at most one Search Trigger fires after a keystroke and none
\* while its timer is pending; once no timer is pending, exactly one has fired
\* with the value of the last keystroke when that value is not blank, and none
\* has fired when it is blank.
C1_OneSearchPerNonBlankBurst ==
  /\ Len(searches) <= 1
  /\ timers # {} => searches = <<>>
  /\ (lastOp.op # "init" /\ timers = {}) =>
       searches = IF IsBlank(lastKey) THEN <<>> ELSE << lastKey >>

\* Three keystrokes armed timers 1, 2 and 3; one request went out, for the
\* third, carrying the last value typed.
C1_Witness ==
  /\ lastOp.op = "timerCallback"
  /\ debounceTimer = 3
  /\ timers = {}
  /\ searches = << lastKey >>
  /\ inflight = { [id |-> 3, q |-> lastKey] }

\* C2: right after a keystroke whose value is blank, the dropdown is closed,
\* the results are the empty object, no timer is pending and the query is the
\* raw value.
C2_BlankKeystrokeClosesAndClears ==
  (lastOp.op = "handleInput" /\ IsBlank(lastOp.arg)) =>
    /\ open = FALSE
    /\ results = EmptyResults
    /\ timers = {}
    /\ searchQuery = lastOp.arg

\* A white-space-only keystroke typed after a timer had been armed.
C2_Witness ==
  /\ lastOp.op = "handleInput"
  /\ lastOp.arg = <<" ">>
  /\ searchQuery = <<" ">>
  /\ debounceTimer # NoTimer
  /\ ~open

C4_AtMostOnePendingTimer ==
  /\ Cardinality(timers) <= 1
  /\ timers # {} => timers = {debounceTimer}

\* A second timer is pending alone.
C4_Witness ==
  /\ lastOp.op = "handleInput"
  /\ debounceTimer >= 2
  /\ timers = {debounceTimer}

\* C5: setResults stores its argument and clears loading, and changes neither
\* open, the query nor the timer, and dispatches nothing.
C5_SetResultsFrame ==
  [][ lastOp'.op = "setResults" =>
        /\ results' = lastOp'.arg
        /\ loading' = FALSE
        /\ open' = open
        /\ searchQuery' = searchQuery
        /\ timers' = timers
        /\ debounceTimer' = debounceTimer
        /\ emitted' = <<>> ]_vars

\* Results stored while the dropdown is closed and a timer is pending.
C5_Witness ==
  /\ lastOp.op = "setResults"
  /\ ~open
  /\ timers # {}
  /\ LengthOf(results.products) = 2

\* C6: whatever setResults was given, rendering raises no error.
C6_RenderNeverThrows == ~render(Widget).threw

\* C7: in every state and for every payload, a second setResults with the
\* same payload changes neither the fields of the component nor what is
\* rendered.
C7_SetResultsIdempotent ==
  \A p \in Payloads :
    LET once == setResultsEffect(Widget, p)
        twice == setResultsEffect(once, p)
    IN  /\ twice = once
        /\ render(twice) = render(once)

\* setResults has stored a payload that renders several sections.
C7_Witness ==
  /\ lastOp.op = "setResults"
  /\ open
  /\ Len(render(Widget).sections) = 3

\* C8: after Clear the query is empty, the results are the empty object, the
\* dropdown is closed, and one 'search-clear' event without detail was
\* dispatched.
C8_ClearResets ==
  lastOp.op = "handleClear" =>
    /\ searchQuery = EmptyStr
    /\ results = EmptyResults
    /\ open = FALSE
    /\ emitted = << CustomEvent("search-clear", NoDetail) >>

\* Clear pressed while a request was in flight.
C8_Witness ==
  /\ lastOp.op = "handleClear"
  /\ inflight # {}
  /\ loading

\* C9: after a click on an entry the query is the entry's name, the dropdown
\* is closed, and one 'suggestion-click' event carries the name, the tag of
\* the section and the entry's url when it has one.
C9_PickClosesAndReportsTarget ==
  lastOp.op = "handleSuggestionClick" =>
    /\ searchQuery = lastOp.arg.entry.name
    /\ open = FALSE
    /\ Len(emitted) = 1
    /\ emitted[1].name = "suggestion-click"
    /\ emitted[1].detail.suggestion = lastOp.arg.entry.name
    /\ emitted[1].detail.type = lastOp.arg.type
    /\ lastOp.arg.entry.url # Undefined =>
         /\ "url" \in DOMAIN emitted[1].detail
         /\ emitted[1].detail.url = lastOp.arg.entry.url

\* C10: Close closes the dropdown and dispatches one 'search-close' event,
\* and changes neither the query, the results nor loading.
C10_CloseFrame ==
  [][ lastOp'.op = "handleClose" =>
        /\ open' = FALSE
        /\ emitted' = << CustomEvent("search-close", NoDetail) >>
        /\ searchQuery' = searchQuery
        /\ results' = results
        /\ loading' = loading ]_vars

\* Close pressed with a query, stored results and a search in progress.
C10_Witness ==
  /\ lastOp.op = "handleClose"
  /\ ~open
  /\ Truthy(searchQuery)
  /\ LengthOf(results.products) = 1
  /\ loading

\* C11: Submit dispatches one 'search-submit' event carrying the current
\* query and changes neither open, the query, the results, loading nor the
\* timer.
C11_SubmitFrame ==
  [][ lastOp'.op = "handleSubmit" =>
        /\ emitted' = << CustomEvent("search-submit", [query |-> searchQuery]) >>
        /\ open' = open
        /\ searchQuery' = searchQuery
        /\ results' = results
        /\ loading' = loading
        /\ timers' = timers
        /\ debounceTimer' = debounceTimer ]_vars

\* Submit pressed with the dropdown open and a timer pending.
C11_Witness ==
  /\ lastOp.op = "handleSubmit"
  /\ open
  /\ timers # {}
  /\ emitted = << CustomEvent("search-submit", [query |-> <<" ", "a">>]) >>

\* The sections render() draws in the current state.
Drawn == render(Widget).sections

\* How many sections of one kind are drawn.
DrawnCount(kind) == Cardinality({ i \in 1..Len(Drawn) : Drawn[i].section = kind })

\* C12: while the dropdown is closed no section is drawn, whatever the query,
\* the results and loading are.
C12_ClosedDrawsNothing == ~open => (Drawn = <<>> /\ ~render(Widget).threw)

\* Closed with a query, stored results and a search in progress.
C12_Witness ==
  /\ ~open
  /\ loading
  /\ Truthy(searchQuery)
  /\ LengthOf(results.suggestions) = 1
  /\ LengthOf(results.products) = 2

\* C13: while the dropdown is open, each of the suggestions, products and
\* pages sections is drawn exactly once when its own array is non-empty, with
\* that array's entries, and not at all otherwise.
C13_SectionIffOwnArray ==
  open =>
    /\ DrawnCount("suggestions") = IF LengthOf(results.suggestions) > 0 THEN 1 ELSE 0
    /\ DrawnCount("products") = IF LengthOf(results.products) > 0 THEN 1 ELSE 0
    /\ DrawnCount("pages") = IF LengthOf(results.pages) > 0 THEN 1 ELSE 0
    /\ \A i \in 1..Len(Drawn) :
         /\ Drawn[i].section = "suggestions" => Drawn[i].entries = results.suggestions.items
         /\ Drawn[i].section = "products" => Drawn[i].entries = results.products.items
         /\ Drawn[i].section = "pages" => Drawn[i].entries = results.pages.items

\* Suggestions and products are both stored and both drawn, under the loading
\* indicator.
C13_Witness ==
  /\ open
  /\ loading
  /\ LengthOf(results.suggestions) = 1
  /\ LengthOf(results.products) = 2
  /\ DrawnCount("suggestions") = 1
  /\ DrawnCount("products") = 1

\* C17: a request that succeeds stores the decoded body and clears loading; a
\* request that fails stores the empty object and clears loading; neither
\* dispatches an event.
C17_FetchOutcome ==
  /\ lastOp.op = "fetchFulfilled" =>
       (results = lastOp.arg /\ ~loading /\ emitted = <<>>)
  /\ lastOp.op = "fetchRejected" =>
       (results = EmptyResults /\ ~loading /\ emitted = <<>>)

\* A request failed while the dropdown was open: the query is kept and the
\* empty-state message is drawn.
C17_Witness ==
  /\ lastOp.op = "fetchRejected"
  /\ open
  /\ Truthy(searchQuery)
  /\ DrawnCount("empty") = 1

\* No array of the stored results has an entry.
NothingStored ==
  /\ LengthOf(results.suggestions) = 0
  /\ LengthOf(results.products) = 0
  /\ LengthOf(results.pages) = 0

\* C14: while the dropdown is open, the empty-state message is drawn exactly
\* when loading is false, the query is non-empty and nothing is stored; it
\* is then the only section drawn, once, and it quotes the query.
C14_EmptyStateIff ==
  open =>
    /\ DrawnCount("empty") =
         IF ~loading /\ Truthy(searchQuery) /\ NothingStored THEN 1 ELSE 0
    /\ DrawnCount("empty") > 0 => Drawn = << Section("empty", <<>>, searchQuery) >>

\* C15 (as stated): the loading indicator is never drawn together with a
\* suggestions, products or pages section.
C15_LoadingExcludesResults ==
  DrawnCount("loading") > 0 =>
    DrawnCount("suggestions") + DrawnCount("products") + DrawnCount("pages") = 0

\* C15 (amended): whenever the loading indicator is drawn it is drawn once,
\* above every other section, and never together with the empty-state
\* message; result sections may be drawn below it.
C15_LoadingFirstAndNeverWithEmpty ==
  /\ (open /\ loading /\ ~results.isNull) => DrawnCount("loading") = 1
  /\ DrawnCount("loading") > 0 =>
       /\ DrawnCount("loading") = 1
       /\ Drawn[1].section = "loading"
       /\ DrawnCount("empty") = 0

\* A new search is in progress while the results of an earlier one are still
\* stored: the indicator is drawn above the products and the pages.
C15_Witness ==
  /\ Len(Drawn) = 4
  /\ Drawn[1].section = "loading"
  /\ Drawn[3].section = "products"
  /\ inflight # {}

\* C16: loading is true once the timer callback has started a search and
\* until a payload is recorded, and for as long as a request is in flight.
C16_LoadingWhileSearchPending ==
  /\ (lastOp.op = "timerCallback" /\ ~IsBlank(searchQuery)) => loading
  /\ inflight # {} => loading

\* C18: when the timer fires without an endpoint and with a query that is not
\* blank, loading becomes true, one event carrying the query is dispatched,
\* no request is issued, and the results and open are unchanged.
C18_DelegatedTrigger ==
  [][ (lastOp'.op = "timerCallback" /\ apiEndpoint = NoEndpoint
         /\ ~IsBlank(searchQuery)) =>
        /\ loading'
        /\ Len(emitted') = 1
        /\ emitted'[1].detail = [query |-> searchQuery]
        /\ inflight' = inflight
        /\ results' = results
        /\ open' = open ]_vars

C20_ListenerFollowsConnection ==
  (lastOp.op = "dispatchSearchResponse" /\ HasData(lastOp.arg)) =>
    lastOp.applied = IF connected THEN 1 ELSE 0

\* C21 (as stated): in every reachable state, if the query is the empty
\* string then the dropdown is closed and no array of the stored results has
\* an entry.
C21_EmptyQueryClosedAndNoResults ==
  searchQuery = EmptyStr => (~open /\ NothingStored)

\* C21: right after a keystroke that leaves the query empty, and right after
\* Clear, the query is empty, the dropdown is closed and the results are {}.
C21_EmptiedQueryClosesAndClears ==
  (lastOp.op \in {"handleInput", "handleClear"} /\ searchQuery = EmptyStr) =>
    (~open /\ results = EmptyResults)

\* Clear has emptied the query while a request is still in flight: its
\* completion will store a payload under the empty query.
C21_Witness ==
  /\ lastOp.op = "handleClear"
  /\ searchQuery = EmptyStr
  /\ ~open
  /\ results = EmptyResults
  /\ inflight # {}

OccursIn(q, t) ==
  \E i \in 0..(Len(t) - Len(q)) : SubSeq(t, i + 1, i + Len(q)) = q

\* C23: for a query that is not empty and whose lower-cased form occurs in
\* the lower-cased label, highlighting yields exactly three spans, prefix,
\* match and suffix, that concatenate to the label; only the match is
\* emphasized; the match has the length of the query, is made of the label's
\* own characters and equals the query up to case; and no earlier position of
\* the label matches the query up to case.
C23_ThreeSpansAroundFirstMatch ==
  (hlResult # <<>> /\ hlQuery # EmptyStr
     /\ OccursIn(toLowerCase(hlQuery), toLowerCase(hlText))) =>
    /\ Len(hlResult) = 3
    /\ \A i \in 1..3 : hlResult[i].span
    /\ hlResult[1].text \o hlResult[2].text \o hlResult[3].text = hlText
    /\ ~hlResult[1].bold /\ hlResult[2].bold /\ ~hlResult[3].bold
    /\ Len(hlResult[2].text) = Len(hlQuery)
    /\ toLowerCase(hlResult[2].text) = toLowerCase(hlQuery)
    /\ \A i \in 0..(Len(hlResult[1].text) - 1) :
         i + Len(hlQuery) <= Len(hlText) =>
           toLowerCase(SubSeq(hlText, i + 1, i + Len(hlQuery)))
             # toLowerCase(hlQuery)

SectionRank(kind) ==
  CASE kind = "suggestions" -> 1
    [] kind = "products" -> 2
    [] kind = "pages" -> 3
    [] OTHER -> 0

\* The stored array a result section is drawn from.
StoredFor(kind) ==
  CASE kind = "suggestions" -> results.suggestions
    [] kind = "products" -> results.products
    [] kind = "pages" -> results.pages

\* C25: the result sections are drawn in the order suggestions, products,
\* pages, and the entries of each are the entries of its stored array, in the
\* same order and as many times.
C25_FixedOrderEntriesAsStored ==
  \A i \in 1..Len(Drawn) :
    SectionRank(Drawn[i].section) > 0 =>
      /\ Drawn[i].entries = StoredFor(Drawn[i].section).items
      /\ \A j \in 1..Len(Drawn) :
           (i < j /\ SectionRank(Drawn[j].section) > 0) =>
             SectionRank(Drawn[i].section) < SectionRank(Drawn[j].section)

\* All three sections are drawn, the products in the stored order "ab", "A".
C25_Witness ==
  /\ Len(Drawn) = 3
  /\ Drawn[1].section = "suggestions"
  /\ Drawn[2].section = "products"
  /\ Drawn[2].entries = << ItemB, ItemA >>
  /\ Drawn[3].section = "pages"

\* C26: Clear cancels a pending debounce timer: a timer that was armed before
\* a Clear never produces an effect of the Search Trigger.  When it fires,
\* performSearch does not get past its blank-query return, so loading is not
\* set, no event is dispatched and no request is issued.
C26_ClearCancelsPendingTimer ==
  (lastOp.op = "timerCallback" /\ lastOp.stale) =>
    (~lastOp.searched /\ emitted = <<>>)

\* C27: Close cancels neither the pending timer nor a request in flight.
\* Close leaves both where they are; the timer callback that runs afterwards
\* searches for the query of that moment (with an endpoint, it issues the
\* request for it); a fetch that completes afterwards stores its payload; and
\* neither the callback nor the completion changes open.
C27_CloseCancelsNothing ==
  [][ /\ lastOp'.op = "handleClose" =>
           (timers' = timers /\ debounceTimer' = debounceTimer
              /\ inflight' = inflight)
      /\ lastOp'.op = "timerCallback" =>
           /\ open' = open
           /\ searches' = Append(searches, searchQuery)
           /\ (~IsBlank(searchQuery) /\ apiEndpoint # NoEndpoint) =>
                \E r \in inflight' \ inflight : r.q = searchQuery
      /\ lastOp'.op = "fetchFulfilled" =>
           (open' = open /\ results' = lastOp'.arg)
      /\ lastOp'.op = "fetchRejected" => open' = open ]_vars

\* The dropdown was closed while the timer of the keystroke "a" was pending;
\* the timer has fired all the same and its request is in flight.
C27_Witness ==
  /\ lastOp.op = "timerCallback"
  /\ ~open
  /\ searches = << searchQuery >>
  /\ inflight = { [id |-> debounceTimer, q |-> searchQuery] }
  /\ loading

\* C28: every ingestion replaces the stored results as a whole.  After
\* setResults or a fulfilled fetch the results are the payload handed in,
\* nothing more; after a side-channel event with data they are the data's
\* suggestions and products and no pages, whatever was stored before.
C28_IngestionReplacesWhole ==
  [][ /\ lastOp'.op \in {"setResults", "fetchFulfilled"} =>
           results' = lastOp'.arg
      /\ (lastOp'.op = "dispatchSearchResponse" /\ lastOp'.applied > 0) =>
           /\ results'.pages = Absent
           /\ \A f \in {"suggestions", "products"} :
                results'[f] = IF lastOp'.arg.data[f].kind = "array"
                                THEN lastOp'.arg.data[f] ELSE Arr(<<>>)
           /\ DOMAIN results' = {"isNull", "suggestions", "products", "pages"}
           /\ ~results'.isNull ]_vars

\* A side-channel event whose data had a page has been applied: two products
\* are stored and no pages.
C28_Witness ==
  /\ lastOp.op = "dispatchSearchResponse"
  /\ lastOp.applied = 1
  /\ lastOp.arg.data.pages = Arr(<< ItemA >>)
  /\ results.products = Arr(<< ItemB, ItemA >>)
  /\ results.pages = Absent

\* C29: the side-channel handler does not correlate a response with a query.
\* In every reachable state and for every event, what the handler stores,
\* and whether it opens the dropdown, is the same whatever the current query
\* is, and the query is left as it was.
C29_ResponseAppliedWhateverTheQuery ==
  \A e \in Envelopes, q \in Inputs :
    handleSearchResponse([Widget EXCEPT !.searchQuery = q], e)
      = [handleSearchResponse(Widget, e) EXCEPT !.searchQuery = q]

\* The only search the host was ever asked for is "a" (one timer was armed,
\* by the last keystroke); Clear has emptied the query since, and the response
\* delivered afterwards is on display under the empty query.
C29_Witness ==
  /\ lastOp.op = "dispatchSearchResponse"
  /\ lastOp.applied = 1
  /\ nextTimerId = 2
  /\ lastKey = << "a" >>
  /\ searchQuery = EmptyStr
  /\ open
  /\ DrawnCount("products") = 1

\* C30: with an endpoint, at most one search is made, hence at most one
\* request issued, per debounce window, and every timer issues at most one
\* request; requests of earlier windows may still be in flight; each
\* completion overwrites the results whatever request it belongs to, so the
\* results after a completion are those of the request that completed last.
C30_LastCompletionWins ==
  /\ Len(searches) <= 1
  /\ \A r1, r2 \in inflight : r1.id = r2.id => r1 = r2
  /\ \A r \in inflight : r.id < nextTimerId /\ r.id \notin timers
  /\ lastOp.op = "fetchFulfilled" => results = lastOp.arg
  /\ lastOp.op = "fetchRejected" => results = EmptyResults

\* Two windows, two requests: the request of the second window has completed
\* first, and the body of the first request, completing last, is what is
\* stored.
C30_Witness ==
  /\ lastOp.op = "fetchFulfilled"
  /\ lastOp.id = 1
  /\ nextTimerId = 3
  /\ debounceTimer = 2
  /\ timers = {}
  /\ Len(searches) = 1
  /\ ~IsBlank(searches[1])
  /\ inflight = {}
  /\ results = lastOp.arg
  /\ ~NothingStored

C33_SearchCarriesLastKeystroke ==
  (lastOp.op = "timerCallback" /\ lastOp.searched) =>
    searches[Len(searches)] = lastKey

\* C33: every search the timer callback makes is for the query as it is when
\* the timer fires, and with an endpoint the request carries that query.  The
\* query is then the raw value of the most recent keystroke unless a pick has
\* replaced it with the name of the picked entry.
C33_SearchCarriesCurrentQuery ==
  (lastOp.op = "timerCallback" /\ lastOp.searched) =>
    /\ searches[Len(searches)] = searchQuery
    /\ apiEndpoint # NoEndpoint => \E r \in inflight : r.q = searchQuery
    /\ searchQuery = lastKey \/ searchQuery \in { ItemA.name, ItemB.name }

\* The keystroke was "a", the product "A" was picked before the timer fired,
\* and the request is for "A".
C33_Witness ==
  /\ lastOp.op = "timerCallback"
  /\ lastOp.searched
  /\ lastKey = << "a" >>
  /\ searchQuery = ItemA.name
  /\ inflight = { [id |-> debounceTimer, q |-> ItemA.name] }

\* C34 (as stated): the empty-state message is drawn only when a search for
\* the current query has been made since the last keystroke; it is not drawn
\* between a keystroke and the firing of that keystroke's timer.
C34_EmptyStateOnlyAfterSearch ==
  DrawnCount("empty") > 0 =>
    (searches # <<>> /\ searches[Len(searches)] = searchQuery)

\* C34: right after a keystroke whose trimmed value is non-empty, while its
\* timer is pending, if loading is false and nothing is stored, the
\* empty-state message quoting the query is the one section drawn; when the
\* results are null, render() throws instead.
C34_EmptyStateBeforeSearch ==
  (lastOp.op = "handleInput" /\ ~IsBlank(lastOp.arg) /\ ~loading
     /\ NothingStored) =>
    /\ debounceTimer \in timers
    /\ searches = <<>>
    /\ IF results.isNull THEN render(Widget).threw
       ELSE /\ Len(Drawn) = 1
            /\ Drawn[1].section = "empty"
            /\ Drawn[1].text = searchQuery

\* The first keystroke "a": no search has been made, its timer is pending,
\* and 'No results found for "a"' is on display.
C34_Witness ==
  /\ lastOp = [op |-> "handleInput", arg |-> << "a" >>]
  /\ nextTimerId = 2
  /\ timers = {1}
  /\ searches = <<>>
  /\ DrawnCount("empty") = 1

\* C35 (as stated): after Clear, and after a keystroke whose trimmed value is
\* empty, loading is false.
C35_LoadingFalseAfterEmptying ==
  (lastOp.op = "handleClear"
     \/ (lastOp.op = "handleInput" /\ IsBlank(lastOp.arg))) => ~loading

\* C35: Clear and a keystroke whose trimmed value is empty leave loading as
\* it was; and after a keystroke that opens the dropdown, before its timer
\* has fired, the loading indicator is drawn exactly when loading is true.
C35_EmptyingKeepsLoading ==
  [][ /\ (lastOp'.op = "handleClear"
            \/ (lastOp'.op = "handleInput" /\ IsBlank(lastOp'.arg))) =>
           loading' = loading
      /\ (lastOp'.op = "handleInput" /\ ~IsBlank(lastOp'.arg)
            /\ ~results'.isNull) =>
           /\ loading' = loading
           /\ debounceTimer' \in timers'
           /\ Len(SelectSeq(render(Widget)'.sections,
                            LAMBDA s : s.section = "loading"))
                = IF loading THEN 1 ELSE 0 ]_vars

\* Clear was pressed while the request for "a" was in flight: loading is
\* still true.
C35_Witness ==
  /\ lastOp.op = "handleClear"
  /\ loading
  /\ timers = {}
  /\ inflight = { [id |-> debounceTimer, q |-> << "a" >>] }

\* C37: a side-channel event without detail, or whose detail has no data,
\* leaves the results, loading, open and the query as they were, whatever the
\* number of listeners, and nothing is dispatched.
C37_NoDataChangesNothing ==
  [][ (lastOp'.op = "dispatchSearchResponse"
         /\ (~lastOp'.arg.hasDetail \/ lastOp'.arg.data.isNull)) =>
        /\ results' = results
        /\ loading' = loading
        /\ open' = open
        /\ searchQuery' = searchQuery
        /\ emitted' = <<>> ]_vars

\* An event whose detail has no data reached a listening element that is
\* closed with results stored: it is still closed, with the same results.
C37_Witness ==
  /\ lastOp.op = "dispatchSearchResponse"
  /\ lastOp.arg = Envelope(TRUE, NullResults)
  /\ listeners > 0
  /\ ~open
  /\ ~NothingStored

\* C36: with an endpoint, when every request eventually succeeds or fails,
\* every state in which loading is true is followed by a state in which
\* loading is false.
C36_LoadingEnds == loading ~> ~loading

\* Two requests are in flight and loading is true.
C36_Witness ==
  /\ loading
  /\ Cardinality(inflight) = 2

\* What a side-channel event with data is stored as.
StoredFrom(e) ==
  [isNull |-> FALSE,
   suggestions |-> IF e.data.suggestions.kind = "array"
                     THEN e.data.suggestions ELSE Arr(<<>>),
   products |-> IF e.data.products.kind = "array"
                  THEN e.data.products ELSE Arr(<<>>),
   pages |-> Absent]

====
